---- MODULE Spec2Model ----
(***************************************************************************)
(* State-machine model of the BotFootball services:                        *)
(*   DatabaseService (src/database_service.py): users, subscriptions,      *)
(*     payment links, persisted matches;                                   *)
(*   MatchService / FootballApiClient (src/match_service.py): odds cache;  *)
(*   the handlers and scheduler jobs of src/main.py.                       *)
(*                                                                         *)
(* Time is counted in minutes since the start of the process.  Table rows  *)
(* are kept in insertion order, so a row's primary key is its index.       *)
(***************************************************************************)
EXTENDS Integers, Sequences, FiniteSets, TLC

VARIABLES
    now,          \* datetime.utcnow(), in minutes
    steps,        \* number of calls and clock advances so far (bounds the run)
    users,        \* table users: <<[telegram_id, username, trial]>>
    subs,         \* table subscriptions: <<[user_id, start, end, stype, price, payment_id]>>
    links,        \* table payment_links: <<[tg, token, stype, amount, created_at, paid]>>
    matches,      \* table matches: <<[odds_1, odds_2, match_time, sent]>>
    cache,        \* MatchService.cache
    last_update,  \* MatchService.last_update
    pc,           \* per caller of MatchService.fetch_matches: "idle" or "awaiting"
    callNow,      \* per caller: the local `now` of its fetch_matches call in flight
    paidLog,      \* history: per token, the results of the mark_payment_as_paid calls
    everOk,       \* history: some upstream fetch has been stored in the cache
    notifiedDone, \* history: ids for which mark_match_as_notified found the match
    reported,     \* history: feed ids sent to a subscriber by a completed sweep
    revoked,      \* history: the rows ended by revoke_subscription, with their former end
    settling,     \* per task: its mark_payment_as_paid call in flight
    granting,     \* per task: its create_subscription / admin_create_subscription call in flight
    joining,      \* per task: its get_or_create_user call in flight
    user_data,    \* context.user_data of every Telegram account
    picked,       \* history: per account, the admin operation it selected last
    refused,      \* history: the accounts an admin handler has turned away
    update,       \* the update handled last: its kind, sender, data and handler
    ret           \* the last completed call: its name, arguments and result

dbVars == <<users, subs, links, matches>>
svcVars == <<cache, last_update, pc, callNow>>
histVars == <<paidLog, everOk, notifiedDone, reported, revoked>>
txVars == <<settling, granting>>
uiVars == <<user_data, picked, refused, update>>
vars == <<now, steps, dbVars, svcVars, histVars, txVars, joining, uiVars, ret>>

\* ------------------------------------------------------------------ bounds
\* every behaviour is cut after MaxSteps calls and clock advances
MaxSteps == 5

\* ------------------------------------------------------------ input domains
\* Python None as a query result or return value (row keys and ids start at 1)
None == 0
Day == 24 * 60
TickSteps == {5, 3 * Day, 32 * Day}
\* the Telegram accounts that talk to the bot: <<id, username>>
Accounts == {<<1, "Bob">>, <<7, "amy">>}
TelegramIds == {a[1] : a \in Accounts}
AdminInputs == {"bob", "AMY", "zed"}
SubTypes == {"week", "two_weeks", "month", "year"}
\* purchases on offer, <<plan, amount>>: the three tariffs of the purchase menu
\* and a plan kind that is not in the table
Offers == {<<"week", 650>>, <<"two_weeks", 1300>>, <<"month", 2500>>, <<"year", 650>>}
PaymentIds == {"pay_a", "pay_b"}
Tokens == {"tok_a", "tok_b"}

Max(a, b) == IF a >= b THEN a ELSE b

LowerExact(s) == s

\* func.lower(...) of the usernames in play
Lower(s) ==
    CASE s = "Bob" -> "bob"
      [] s = "AMY" -> "amy"
      [] OTHER -> s

\* ---------------------------------------------------------------- clock
Step ==
    /\ steps < MaxSteps
    /\ steps' = steps + 1

\* datetime.utcnow() moves forward between calls.
Tick(d) ==
    /\ Step
    /\ now' = now + d
    /\ ret' = [op |-> "tick"]
    /\ UNCHANGED <<dbVars, svcVars, histVars, txVars, joining, uiVars>>

\* ---------------------------------------------------------------- users
\* get_user_by_telegram_id: the rows whose telegram_id matches (.first() of them)
UsersByTelegramId(tg) == {i \in DOMAIN users : users[i].telegram_id = tg}

\* the rows matched by  func.lower(User.username) == func.lower(username)
UsersByUsername(name) == {i \in DOMAIN users : Lower(users[i].username) = Lower(name)}

TrialInitial == 3

\* db_service.get_or_create_user, run without another call in between
DbGetOrCreateUser(tg, username) ==
    IF UsersByTelegramId(tg) # {}
    THEN /\ \E u \in UsersByTelegramId(tg) :
               ret' = [op |-> "get_or_create_user", tg |-> tg, uid |-> u,
                       created |-> FALSE, outcome |-> "returned"]
         /\ UNCHANGED users
    ELSE /\ users' = Append(users, [telegram_id |-> tg, username |-> username,
                                    trial |-> TrialInitial])
         /\ ret' = [op |-> "get_or_create_user", tg |-> tg,
                    uid |-> Len(users) + 1, created |-> TRUE,
                    outcome |-> "returned"]

GetOrCreateUser(tg, username) ==
    /\ Step
    /\ DbGetOrCreateUser(tg, username)
    /\ UNCHANGED <<now, subs, links, matches, svcVars, histVars, txVars, joining, uiVars>>

\* get_or_create_user is a coroutine: a call is suspended at
\* `await self.get_user_by_telegram_id(...)` and again at
\* `await session.commit()`, and another call can run in between.  A task
\* below is one such call.
JoinTasks == {"start_1", "start_2"}

JoinIdle == [at |-> "idle", tg |-> None, username |-> ""]

UniqueTelegramIdOff == FALSE

\* telegram_id = Column(Integer, unique=True): the commit of a second row
\* with the telegram_id of an existing one raises IntegrityError
UniqueTelegramId == TRUE

\* the call up to the test of line 114: an existing user is returned at once
JoinRead(k, tg, username) ==
    /\ Step
    /\ joining[k].at = "idle"
    /\ IF UsersByTelegramId(tg) # {}
       THEN /\ \E u \in UsersByTelegramId(tg) :
                  ret' = [op |-> "get_or_create_user", tg |-> tg, uid |-> u,
                          created |-> FALSE, outcome |-> "returned"]
            /\ UNCHANGED joining
       ELSE /\ joining' = [joining EXCEPT ![k] =
                              [at |-> "commit", tg |-> tg, username |-> username]]
            /\ ret' = [op |-> "get_or_create_user_await", tg |-> tg]
    /\ UNCHANGED <<now, dbVars, svcVars, histVars, txVars, uiVars>>

\* session.add(user); commit; refresh; return user
JoinCommit(k) ==
    /\ Step
    /\ joining[k].at = "commit"
    /\ LET j == joining[k] IN
       IF UniqueTelegramId /\ UsersByTelegramId(j.tg) # {}
       THEN /\ ret' = [op |-> "get_or_create_user", tg |-> j.tg, uid |-> None,
                       created |-> FALSE, outcome |-> "raise"]
            /\ UNCHANGED users
       ELSE /\ users' = Append(users, [telegram_id |-> j.tg,
                                       username |-> j.username,
                                       trial |-> TrialInitial])
            /\ ret' = [op |-> "get_or_create_user", tg |-> j.tg,
                       uid |-> Len(users) + 1, created |-> TRUE,
                       outcome |-> "returned"]
    /\ joining' = [joining EXCEPT ![k] = JoinIdle]
    /\ UNCHANGED <<now, subs, links, matches, svcVars, histVars, txVars, uiVars>>

\* ---------------------------------------------------------- subscriptions
\* rows selected by  Subscription.user_id == user_id AND Subscription.end_date >= now
ActiveRows(user_id) == {r \in DOMAIN subs : subs[r].user_id = user_id /\ subs[r].end >= now}

HasActiveSubscription(user_id) == ActiveRows(user_id) # {}

\* get_active_subscription returns .first() of the selected rows, or None
GetActiveSubscription(user_id) ==
    IF ActiveRows(user_id) = {} THEN {None} ELSE ActiveRows(user_id)

PaidDurationThirty(stype) ==
    CASE stype = "week" -> 7 * Day
      [] stype = "two_weeks" -> 14 * Day
      [] stype = "month" -> 30 * Day
      [] OTHER -> 7 * Day

PaidDuration(stype) ==
    CASE stype = "week" -> 7 * Day
      [] stype = "two_weeks" -> 14 * Day
      [] stype = "month" -> 31 * Day
      [] OTHER -> 7 * Day

AdminKnownTypes == {"week", "two_weeks", "month"}

AdminDurationRounded(stype) == 30 * Day

AdminDuration(stype) ==
    CASE stype = "week" -> 7 * Day
      [] stype = "two_weeks" -> 14 * Day
      [] stype = "month" -> 30 * Day

AdminPrice(stype) ==
    CASE stype = "week" -> 650
      [] stype = "two_weeks" -> 1300
      [] stype = "month" -> 2500

\* What the renewal branch writes to the database.  The row it updates is the
\* object returned by get_active_subscription, which was loaded in the session
\* that get_active_subscription opened and closed (lines 139-146): it is
\* detached, and never part of the session of the caller.  The assignments
\* to end_date, price_paid and payment_id change that in-memory object only;
\* session.commit() of the caller's session flushes nothing.
RenewalStore(table, row, new_end, amount, payment_id) == table

\* session.refresh(subscription) on an instance that is not persistent in
\* the session raises InvalidRequestError: the renewal call ends by raising.
RenewalOutcome == "raise"

CreateSubscription(user_id, stype, amount, payment_id) ==
    /\ Step
    /\ \E existing \in GetActiveSubscription(user_id) :
        LET duration == PaidDuration(stype) IN
        IF existing # None
        THEN LET base_date == Max(now, subs[existing].end) IN
             /\ subs' = RenewalStore(subs, existing, base_date + duration,
                                     subs[existing].price + amount, payment_id)
             /\ ret' = [op |-> "create_subscription", uid |-> user_id,
                        stype |-> stype, amount |-> amount, at |-> now,
                        had_active |-> TRUE, row |-> existing,
                        prev_end |-> subs[existing].end,
                        prev_price |-> subs[existing].price,
                        rows_before |-> Len(subs),
                        mem_end |-> base_date + duration,
                        mem_stype |-> subs[existing].stype,
                        mem_price |-> subs[existing].price + amount,
                        payment |-> payment_id,
                        outcome |-> RenewalOutcome, is_renewal |-> TRUE]
        ELSE /\ subs' = Append(subs, [user_id |-> user_id, start |-> now,
                                      end |-> now + duration, stype |-> stype,
                                      price |-> amount, payment_id |-> payment_id])
             /\ ret' = [op |-> "create_subscription", uid |-> user_id,
                        stype |-> stype, amount |-> amount, at |-> now,
                        had_active |-> FALSE, row |-> Len(subs) + 1,
                        prev_end |-> None, prev_price |-> 0,
                        rows_before |-> Len(subs),
                        mem_end |-> now + duration, mem_stype |-> stype,
                        mem_price |-> amount, payment |-> payment_id,
                        outcome |-> "returned", is_renewal |-> FALSE]
    /\ UNCHANGED <<now, users, links, matches, svcVars, histVars, txVars, joining, uiVars>>

\* db_service.admin_create_subscription, run without another call in between
DbAdminCreateSubscription(username, stype) ==
    /\ IF UsersByUsername(username) = {} \/ stype \notin AdminKnownTypes
       THEN /\ ret' = [op |-> "admin_create_subscription", name |-> username,
                       uid |-> None, stype |-> stype, at |-> now,
                       had_active |-> FALSE, rows_before |-> Len(subs),
                       outcome |-> "returned", is_renewal |-> FALSE,
                       res |-> None]
            /\ UNCHANGED subs
       ELSE \E u \in UsersByUsername(username) :
            \E existing \in GetActiveSubscription(u) :
               LET duration == AdminDuration(stype)
                   price == AdminPrice(stype) IN
               IF existing # None
               THEN LET base_date == Max(now, subs[existing].end) IN
                    /\ subs' = RenewalStore(subs, existing, base_date + duration,
                                            subs[existing].price + price, "admin")
                    /\ ret' = [op |-> "admin_create_subscription", name |-> username,
                               uid |-> u, stype |-> stype, at |-> now,
                               had_active |-> TRUE, row |-> existing,
                               prev_end |-> subs[existing].end,
                               rows_before |-> Len(subs),
                               mem_end |-> base_date + duration,
                               mem_stype |-> stype,
                               mem_price |-> subs[existing].price + price,
                               prev_price |-> subs[existing].price,
                               amount |-> price, payment |-> "admin",
                               outcome |-> RenewalOutcome, is_renewal |-> TRUE,
                               res |-> None]
               ELSE /\ subs' = Append(subs, [user_id |-> u, start |-> now,
                                             end |-> now + duration, stype |-> stype,
                                             price |-> price, payment_id |-> "admin"])
                    /\ ret' = [op |-> "admin_create_subscription", name |-> username,
                               uid |-> u, stype |-> stype, at |-> now,
                               had_active |-> FALSE, row |-> Len(subs) + 1,
                               prev_end |-> None, rows_before |-> Len(subs),
                               mem_end |-> now + duration, mem_stype |-> stype,
                               mem_price |-> price,
                               prev_price |-> 0,
                               amount |-> price, payment |-> "admin",
                               outcome |-> "returned", is_renewal |-> FALSE,
                               res |-> users[u].telegram_id]

AdminCreateSubscription(username, stype) ==
    /\ Step
    /\ DbAdminCreateSubscription(username, stype)
    /\ UNCHANGED <<now, users, links, matches, svcVars, histVars, txVars, joining, uiVars>>

RevokedEndNow(t) == t

RevokedEndHour(t) == t - 60

\* subscription.end_date = datetime.utcnow() - timedelta(minutes=1)
RevokedEnd(t) == t - 1

RevokeStoreReset(table, row, t) ==
    [table EXCEPT ![row].end = RevokedEnd(t), ![row].price = 0]

\* the write of revoke_subscription: one attribute of the row it selected
RevokeStore(table, row, t) == [table EXCEPT ![row].end = RevokedEnd(t)]

\* db_service.revoke_subscription
DbRevokeSubscription(username) ==
    /\ IF UsersByUsername(username) = {}
       THEN /\ ret' = [op |-> "revoke_subscription", name |-> username,
                       uid |-> None, res |-> None]
            /\ UNCHANGED <<subs, revoked>>
       ELSE \E u \in UsersByUsername(username) :
            \E row \in GetActiveSubscription(u) :
               IF row = None
               THEN /\ ret' = [op |-> "revoke_subscription", name |-> username,
                               uid |-> u, res |-> None]
                    /\ UNCHANGED <<subs, revoked>>
               ELSE /\ subs' = RevokeStore(subs, row, now)
                    /\ revoked' = revoked \cup {[row |-> row, uid |-> u, at |-> now,
                                                 prev_end |-> subs[row].end]}
                    /\ ret' = [op |-> "revoke_subscription", name |-> username,
                               uid |-> u, row |-> row, prev_end |-> subs[row].end,
                               res |-> users[u].telegram_id]

RevokeSubscription(username) ==
    /\ Step
    /\ DbRevokeSubscription(username)
    /\ UNCHANGED <<now, users, links, matches, svcVars, paidLog, everOk,
                   notifiedDone, reported, txVars, joining, uiVars>>

\* ------------------------------------------- overlapping subscription calls
\* create_subscription and admin_create_subscription are coroutines: a call is
\* suspended at `await self.get_active_subscription(...)` and again at
\* `await session.commit()`, and another call can run in between.  A task
\* below is one such call: it reads the active subscription, is suspended,
\* and later writes.
GrantTasks == {"purchase", "grant"}

GrantIdle == [at |-> "idle", uid |-> None, stype |-> "", amount |-> 0,
              payment_id |-> "", duration |-> 0, t |-> 0, existing |-> None,
              overlap |-> FALSE]

\* create_subscription up to the result of get_active_subscription
PurchaseRead(user_id, stype, amount, payment_id) ==
    /\ Step
    /\ granting["purchase"].at # "commit"
    /\ \E existing \in GetActiveSubscription(user_id) :
          granting' = [granting EXCEPT !["purchase"] =
                          [at |-> "commit", uid |-> user_id, stype |-> stype,
                           amount |-> amount, payment_id |-> payment_id,
                           duration |-> PaidDuration(stype), t |-> now,
                           existing |-> existing,
                           overlap |-> (granting["grant"].at = "commit")]]
    /\ ret' = [op |-> "create_subscription_await", uid |-> user_id]
    /\ UNCHANGED <<now, dbVars, svcVars, histVars, settling, joining, uiVars>>

\* admin_create_subscription up to the result of get_active_subscription
GrantRead(username, stype) ==
    /\ Step
    /\ granting["grant"].at # "commit"
    /\ IF UsersByUsername(username) = {} \/ stype \notin AdminKnownTypes
       THEN /\ ret' = [op |-> "admin_create_subscription", name |-> username,
                       uid |-> None, stype |-> stype, at |-> now,
                       had_active |-> FALSE, rows_before |-> Len(subs),
                       outcome |-> "returned", res |-> None]
            /\ UNCHANGED granting
       ELSE /\ \E u \in UsersByUsername(username) :
               \E existing \in GetActiveSubscription(u) :
                  granting' = [granting EXCEPT !["grant"] =
                                  [at |-> "commit", uid |-> u, stype |-> stype,
                                   amount |-> AdminPrice(stype),
                                   payment_id |-> "admin",
                                   duration |-> AdminDuration(stype), t |-> now,
                                   existing |-> existing,
                                   overlap |-> (granting["purchase"].at = "commit")]]
            /\ ret' = [op |-> "admin_create_subscription_await", name |-> username]
    /\ UNCHANGED <<now, dbVars, svcVars, histVars, settling, joining, uiVars>>

\* either call from the branch on the subscription it read to its return
GrantCommit(k) ==
    /\ Step
    /\ granting[k].at = "commit"
    /\ LET g == granting[k] IN
       /\ IF g.existing # None
          THEN subs' = RenewalStore(subs, g.existing,
                                    Max(g.t, subs[g.existing].end) + g.duration,
                                    subs[g.existing].price + g.amount, g.payment_id)
          ELSE subs' = Append(subs, [user_id |-> g.uid, start |-> g.t,
                                     end |-> g.t + g.duration, stype |-> g.stype,
                                     price |-> g.amount,
                                     payment_id |-> g.payment_id])
       /\ granting' = [granting EXCEPT ![k].at = "done"]
       /\ ret' = [op |-> "subscription_commit", task |-> k, uid |-> g.uid,
                  had_active |-> (g.existing # None),
                  outcome |-> IF g.existing # None THEN RenewalOutcome
                              ELSE "returned"]
    /\ UNCHANGED <<now, users, links, matches, svcVars, histVars, settling, joining, uiVars>>

\* ---------------------------------------------------------- payment links
\* select(PaymentLink).where(PaymentLink.unique_id == unique_id)
LinksByToken(token) == {i \in DOMAIN links : links[i].token = token}

\* .first() of a select without ORDER BY: the row with the lowest key
First(rows) == IF rows = {} THEN None ELSE CHOOSE i \in rows : \A j \in rows : i <= j

PaidDefaultTrue == TRUE

\* paid = Column(Boolean, default=False): create_payment_link passes no value
PaidDefault == FALSE

UniqueTokenOff == FALSE

\* unique_id = Column(String, unique=True)
UniqueToken == TRUE

\* create_payment_link, `token` being uuid.uuid4().hex[:10].  A second row
\* with the token of an existing one violates the unique constraint, and the
\* commit raises.
CreatePaymentLink(tg, stype, amount, token) ==
    /\ Step
    /\ IF UniqueToken /\ LinksByToken(token) # {}
       THEN /\ ret' = [op |-> "create_payment_link", token |-> token,
                       outcome |-> "raise"]
            /\ UNCHANGED links
       ELSE /\ links' = Append(links, [tg |-> tg, token |-> token, stype |-> stype,
                                       amount |-> amount, created_at |-> now,
                                       paid |-> PaidDefault])
            /\ ret' = [op |-> "create_payment_link", token |-> token,
                       outcome |-> "returned"]
    /\ UNCHANGED <<now, users, subs, matches, svcVars, histVars, txVars, joining, uiVars>>

SettleNotStored(table, row) == table

\* payment_link.paid = True; await session.commit()
SettleStore(table, row) == [table EXCEPT ![row].paid = TRUE]

MarkPaymentAsPaid(token) ==
    /\ Step
    /\ LET payment_link == First(LinksByToken(token)) IN
       IF payment_link # None /\ ~links[payment_link].paid
       THEN /\ links' = SettleStore(links, payment_link)
            /\ paidLog' = [paidLog EXCEPT ![token] = Append(@, "link")]
            /\ ret' = [op |-> "mark_payment_as_paid", token |-> token,
                       was_unsettled |-> TRUE, res |-> payment_link]
       ELSE /\ UNCHANGED links
            /\ paidLog' = [paidLog EXCEPT ![token] = Append(@, "none")]
            /\ ret' = [op |-> "mark_payment_as_paid", token |-> token,
                       was_unsettled |-> FALSE, res |-> None]
    /\ UNCHANGED <<now, users, subs, matches, svcVars, everOk, notifiedDone, reported, revoked, txVars, joining, uiVars>>

\* mark_payment_as_paid is a coroutine: a call is suspended while its SELECT
\* runs and again at `await session.commit()`.  A task below is one call.
SettleTasks == {"check_1", "check_2"}

SettleIdle == [at |-> "idle", token |-> "", row |-> None]

\* the call up to the test of line 181; a call that finds no unsettled link
\* returns None at once
SettleRead(k, token) ==
    /\ Step
    /\ settling[k].at = "idle"
    /\ LET payment_link == First(LinksByToken(token)) IN
       IF payment_link # None /\ ~links[payment_link].paid
       THEN /\ settling' = [settling EXCEPT ![k] =
                               [at |-> "commit", token |-> token,
                                row |-> payment_link]]
            /\ ret' = [op |-> "mark_payment_as_paid_await", task |-> k,
                       token |-> token]
            /\ UNCHANGED paidLog
       ELSE /\ paidLog' = [paidLog EXCEPT ![token] = Append(@, "none")]
            /\ ret' = [op |-> "mark_payment_as_paid", task |-> k, token |-> token,
                       was_unsettled |-> FALSE, res |-> None]
            /\ UNCHANGED settling
    /\ UNCHANGED <<now, dbVars, svcVars, everOk, notifiedDone, reported,
                   revoked, granting, joining, uiVars>>

\* payment_link.paid = True; commit (an UPDATE by primary key); return the link
SettleCommit(k) ==
    /\ Step
    /\ settling[k].at = "commit"
    /\ links' = SettleStore(links, settling[k].row)
    /\ paidLog' = [paidLog EXCEPT ![settling[k].token] = Append(@, "link")]
    /\ settling' = [settling EXCEPT ![k] = SettleIdle]
    /\ ret' = [op |-> "mark_payment_as_paid", task |-> k,
               token |-> settling[k].token, was_unsettled |-> TRUE,
               res |-> settling[k].row]
    /\ UNCHANGED <<now, users, subs, matches, svcVars, everOk, notifiedDone,
                   reported, revoked, granting, joining, uiVars>>

\* ------------------------------------------------------------ odds feed
\* One fixture record of the upstream payload:
\*   commence: "missing" (no commence_time), "naive" (ISO-8601 without offset),
\*             "aware" (ISO-8601 with Z or an offset), "bad" (not ISO-8601)
\*   kick:     the kickoff instant, in minutes
\*   market:   "no_bookmakers", "no_markets", "no_h2h", "short" (an h2h market
\*             with fewer than two outcomes), "h2h"
\*   p1, p2:   the first two outcome prices, in thousandths; BadPrice when
\*             float() cannot parse the price
BadPrice == -1

Fixture(id, commence, kick, market, p1, p2) ==
    [id |-> id, commence |-> commence, kick |-> kick, market |-> market,
     p1 |-> p1, p2 |-> p2]

FxGood == Fixture(1, "naive", 10 * Day, "h2h", 2000, 6000)
FxAware == Fixture(2, "aware", 10 * Day, "h2h", 2000, 3000)
FxFar == Fixture(3, "naive", 10 * Day, "h2h", 1200, 6000)
FxNoTime == Fixture(4, "missing", 0, "h2h", 2000, 3000)
FxShort == Fixture(5, "naive", 10 * Day, "short", 2000, 0)
FxSoon == Fixture(6, "naive", 2 * Day, "h2h", 7000, 4250)
FxBadTime == Fixture(7, "bad", 0, "h2h", 2000, 3000)
FxNoBook == Fixture(8, "naive", 10 * Day, "no_bookmakers", 0, 0)
FxNoH2h == Fixture(9, "naive", 10 * Day, "no_h2h", 0, 0)
FxBadPrice == Fixture(10, "naive", 10 * Day, "h2h", 2000, BadPrice)

\* a JSON value: a list of fixtures, or an object (iterating it yields its keys)
JsonList(items) == [type |-> "list", items |-> items]
\* a key of a JSON object: a str, which has no .get
FxKey == Fixture(0, "not_a_dict", 0, "no_bookmakers", 0, 0)
JsonObject == [type |-> "object", items |-> <<FxKey>>]
EmptyList == JsonList(<<>>)

Payloads == {EmptyList, JsonList(<<FxGood>>), JsonList(<<FxAware, FxGood>>),
             JsonList(<<FxFar, FxNoTime, FxShort>>), JsonList(<<FxSoon, FxGood>>),
             JsonObject}

\* what the upstream request can end in
Failures == {[kind |-> k, data |-> EmptyList] :
                k \in {"no_api_key", "status_not_200", "exception"}}
Responses == Failures \cup {[kind |-> "ok", data |-> d] : d \in Payloads}

\* FootballApiClient.fetch_matches: the parsed body of a 200 response, [] otherwise
ApiFetchMatches(resp) == IF resp.kind = "ok" THEN resp.data ELSE EmptyList

\* Python truth value of a list or dict
Truthy(json) == json.items # <<>>

\* self.last_update = None
NoUpdate == -1
\* MATCH_CACHE_TTL, 600 seconds, in minutes
CacheTtl == 10

\* the first test of MatchService.fetch_matches: the cache is served as it is
Fresh(lu, t) == lu # NoUpdate /\ t - lu < CacheTtl

DropCache(c) == EmptyList

\* what fetch_matches keeps in the cache when the upstream call returned nothing
KeepCache(c) == c

ResetClock(lu, t) == t

\* what fetch_matches leaves in last_update when the upstream call returned
\* nothing: line 79 is not reached
KeepClock(lu, t) == lu

\* MatchService.fetch_matches from line 76 on, with `t` the now of line 73
\* and `m` the value the api client returned
AfterFetch(c, lu, t, m) ==
    IF Truthy(m)
    THEN [cache |-> m, last_update |-> t, result |-> m]
    ELSE [cache |-> KeepCache(c), last_update |-> KeepClock(lu, t),
          result |-> KeepCache(c)]

Callers == {"fetch_matches_job", "notify_job", "find_matches"}

\* A caller enters fetch_matches: it returns the fresh cache at once, or
\* issues the upstream request and is suspended at the await of line 76.
FetchBegin(c) ==
    /\ Step
    /\ pc[c] = "idle"
    /\ IF Fresh(last_update, now)
       THEN /\ ret' = [op |-> "fetch_matches", caller |-> c, asked |-> FALSE,
                       failed |-> FALSE, result |-> cache,
                       cache_before |-> cache, lu_before |-> last_update,
                       never_ok |-> ~everOk, at |-> now, upstream |-> EmptyList]
            /\ UNCHANGED <<pc, callNow>>
       ELSE /\ pc' = [pc EXCEPT ![c] = "awaiting"]
            /\ callNow' = [callNow EXCEPT ![c] = now]
            /\ ret' = [op |-> "fetch_matches_await", caller |-> c, at |-> now,
                       lu_before |-> last_update]
    /\ UNCHANGED <<now, dbVars, cache, last_update, histVars, txVars, joining, uiVars>>

\* The upstream request of a suspended caller ends, and the caller runs on
\* to its return.
FetchEnd(c, resp) ==
    /\ Step
    /\ pc[c] = "awaiting"
    /\ LET m == ApiFetchMatches(resp)
           after == AfterFetch(cache, last_update, callNow[c], m) IN
       /\ cache' = after.cache
       /\ last_update' = after.last_update
       /\ everOk' = (everOk \/ Truthy(m))
       /\ ret' = [op |-> "fetch_matches", caller |-> c, asked |-> TRUE,
                  failed |-> (resp \in Failures), result |-> after.result,
                  cache_before |-> cache, lu_before |-> last_update,
                  never_ok |-> ~everOk, at |-> callNow[c], upstream |-> m]
    /\ pc' = [pc EXCEPT ![c] = "idle"]
    /\ UNCHANGED <<now, dbVars, callNow, paidLog, notifiedDone, reported, revoked, txVars, joining, uiVars>>

\* The sequential callers below run fetch_matches without interleaving:
\* the whole of MatchService.fetch_matches, `resp` being what the upstream
\* request ends in when one is made.
SvcFetchMatches(c, lu, t, resp) ==
    IF Fresh(lu, t)
    THEN [cache |-> c, last_update |-> lu, result |-> c]
    ELSE AfterFetch(c, lu, t, ApiFetchMatches(resp))

\* min_odds=1.5, max_odds=5.0, in thousandths
MinOdds == 1500
MaxOdds == 5000

\* One pass of the loop body of check_for_matches_with_target_odds: TRUE when
\* the entry is appended to the result.  An exception inside the body (a str
\* has no .get; fromisoformat or float cannot parse; an offset-aware kickoff
\* cannot be compared with the naive utcnow()) is caught and skips the entry.
InRange(e, t, lo, hi) ==
    /\ e.commence = "naive"
    /\ ~(e.kick < t)
    /\ e.market = "h2h"
    /\ e.p1 # BadPrice /\ e.p2 # BadPrice
    /\ \/ (lo <= e.p1 /\ e.p1 <= hi)
       \/ (lo <= e.p2 /\ e.p2 <= hi)

CheckForMatchesAbort(snapshot, t, lo, hi) ==
    LET stops == {i \in DOMAIN snapshot.items : ~InRange(snapshot.items[i], t, lo, hi)}
        n == IF stops = {} THEN Len(snapshot.items) + 1
             ELSE CHOOSE i \in stops : \A j \in stops : i <= j IN
    SubSeq(snapshot.items, 1, n - 1)

\* the loop of check_for_matches_with_target_odds over the snapshot: the
\* try/except is inside the loop, so every entry gets its own pass
CheckForMatches(snapshot, t, lo, hi) ==
    SelectSeq(snapshot.items, LAMBDA e : InRange(e, t, lo, hi))

Ids(found) == {found[i].id : i \in DOMAIN found}

\* the (min_odds, max_odds) arguments in play: the defaults and a narrow range
OddsRanges == {<<MinOdds, MaxOdds>>, <<4000, 4500>>}

\* MatchService.check_for_matches_with_target_odds(min_odds, max_odds), from
\* its fetch_matches() call to the returned list
CheckForMatchesWithTargetOdds(resp, lo, hi) ==
    /\ Step
    /\ LET f == SvcFetchMatches(cache, last_update, now, resp) IN
       /\ cache' = f.cache
       /\ last_update' = f.last_update
       /\ everOk' = (everOk \/ f.last_update # last_update)
       /\ ret' = [op |-> "check_for_matches_with_target_odds", lo |-> lo,
                  hi |-> hi, at |-> now, snapshot |-> f.result,
                  result |-> CheckForMatches(f.result, now, lo, hi)]
    /\ UNCHANGED <<now, dbVars, pc, callNow, paidLog, notifiedDone, reported,
                   revoked, txVars, joining, uiVars>>

\* MatchService.mark_match_as_notified: its body is `pass`
SvcMarkMatchAsNotified(c, ids) == c

\* ------------------------------------------------------------ trial quota
DbDecrementTrialStale(table, user_id) ==
    IF user_id \in DOMAIN table /\ table[user_id].trial > 0
    THEN [table |-> [table EXCEPT ![user_id].trial = @ - 1],
          remaining |-> table[user_id].trial]
    ELSE [table |-> table, remaining |-> 0]

\* DatabaseService.decrement_trial_message: session.get(User, user_id) looks
\* the row up by primary key.
DbDecrementTrial(table, user_id) ==
    IF user_id \in DOMAIN table /\ table[user_id].trial > 0
    THEN [table |-> [table EXCEPT ![user_id].trial = @ - 1],
          remaining |-> table[user_id].trial - 1]
    ELSE [table |-> table, remaining |-> 0]

\* db_service.decrement_trial_message(user_id) as a call of its own
DecrementTrialMessage(user_id) ==
    /\ Step
    /\ LET dec == DbDecrementTrial(users, user_id) IN
       /\ users' = dec.table
       /\ ret' = [op |-> "decrement_trial_message", uid |-> user_id,
                  remaining |-> dec.remaining]
    /\ UNCHANGED <<now, subs, links, matches, svcVars, histVars, txVars, joining, uiVars>>

IsUserSubscribedAnyUser(tg) == First(UsersByTelegramId(tg)) # None

\* is_user_subscribed(user_id), user_id being a Telegram id
IsUserSubscribed(tg) ==
    LET user == First(UsersByTelegramId(tg)) IN
    /\ user # None
    /\ (HasActiveSubscription(user) \/ users[user].trial > 0)

\* The key find_matches passes to decrement_trial_message:
\* update.effective_user.id, the Telegram id of the requester.
TrialKey(tg, user) == tg

\* find_matches, from the button press to the last message
FindMatches(tg, resp) ==
    /\ Step
    /\ IF ~IsUserSubscribed(tg)
       THEN /\ ret' = [op |-> "find_matches", tg |-> tg, denied |-> TRUE,
                       uid |-> First(UsersByTelegramId(tg)),
                       found |-> {}, delivered |-> {}, on_trial |-> FALSE,
                       trial_before |-> 0, dec_called |-> FALSE,
                       dec_key |-> None, remaining |-> 0]
            /\ UNCHANGED <<users, cache, last_update, everOk>>
       ELSE LET user == First(UsersByTelegramId(tg))
                f == SvcFetchMatches(cache, last_update, now, resp)
                found == CheckForMatches(f.result, now, MinOdds, MaxOdds)
                is_on_trial == users[user].trial > 0 /\ ~HasActiveSubscription(user)
                dec == DbDecrementTrial(users, TrialKey(tg, user))
                decrement == found # <<>> /\ is_on_trial IN
            /\ cache' = SvcMarkMatchAsNotified(f.cache, Ids(found))
            /\ last_update' = f.last_update
            /\ everOk' = (everOk \/ (~Fresh(last_update, now) /\ Truthy(ApiFetchMatches(resp))))
            /\ users' = IF decrement THEN dec.table ELSE users
            /\ ret' = [op |-> "find_matches", tg |-> tg, denied |-> FALSE,
                       uid |-> user, found |-> Ids(found),
                       delivered |-> Ids(found), on_trial |-> is_on_trial,
                       trial_before |-> users[user].trial,
                       dec_called |-> decrement,
                       dec_key |-> IF decrement THEN TrialKey(tg, user) ELSE None,
                       remaining |-> IF decrement THEN dec.remaining ELSE 0]
    /\ UNCHANGED <<now, subs, links, matches, pc, callNow, paidLog,
                   notifiedDone, reported, revoked, txVars, joining, uiVars>>

\* ------------------------------------------------------ notification sweep
SubscribedUsersEver == {u \in DOMAIN users : \E r \in DOMAIN subs : subs[r].user_id = u}

\* select(User).join(Subscription).where(Subscription.end_date >= now).distinct()
SubscribedUsers == {u \in DOMAIN users : ActiveRows(u) # {}}

\* subscribed_users, in the order of the query result (by primary key)
SubscribedSeq ==
    SelectSeq([i \in 1..Len(users) |-> i], LAMBDA u : u \in SubscribedUsers)

\* what a sweep does, in order: a delivery attempt (send_match_info) with its
\* outcome, or a call of match_service.mark_match_as_notified
SendEvent(m, tg, ok) == [ev |-> "send", match |-> m, to |-> tg, ok |-> ok]
MarkEvent(m) == [ev |-> "mark", match |-> m, to |-> None, ok |-> TRUE]

AbortFanOut(ok, rest) == IF ok THEN rest ELSE <<>>

\* try: await send_match_info(...) except Exception: logger.error(...)
\* the loop over subscribed_users goes on after a failed delivery
Isolate(ok, rest) == rest

\* for user in subscribed_users: ... ; `fails` are the Telegram ids for which
\* send_match_info raises
RECURSIVE FanOut(_, _, _)
FanOut(m, recipients, fails) ==
    IF recipients = <<>>
    THEN <<>>
    ELSE LET tg == users[Head(recipients)].telegram_id IN
         <<SendEvent(m, tg, tg \notin fails)>>
            \o Isolate(tg \notin fails, FanOut(m, Tail(recipients), fails))

MarkThenFanOut(sends, mark) == mark \o sends

\* the body of `for match in matches`: the inner loop, then line 408
FanOutThenMark(sends, mark) == sends \o mark

\* for match in matches: ...
RECURSIVE SweepLog(_, _, _)
SweepLog(found, recipients, fails) ==
    IF found = <<>>
    THEN <<>>
    ELSE FanOutThenMark(FanOut(Head(found).id, recipients, fails),
                        <<MarkEvent(Head(found).id)>>)
            \o SweepLog(Tail(found), recipients, fails)

\* notify_users_about_new_matches: fetch_matches(), then
\* check_for_matches_with_target_odds() (which calls fetch_matches() again),
\* then every match goes to every subscribed user and is marked notified.
NotifyUsers(resp1, resp2, fails) ==
    /\ Step
    \* the second call goes upstream only when the first did and stored nothing
    /\ resp2 # resp1 => (~Fresh(last_update, now) /\ ~Truthy(ApiFetchMatches(resp1)))
    /\ fails \subseteq {users[u].telegram_id : u \in SubscribedUsers}
    /\ LET f1 == SvcFetchMatches(cache, last_update, now, resp1)
           f2 == SvcFetchMatches(f1.cache, f1.last_update, now, resp2)
           found == CheckForMatches(f2.result, now, MinOdds, MaxOdds)
           log == SweepLog(found, SubscribedSeq, fails)
           sent == {log[i].match : i \in {j \in DOMAIN log :
                                             log[j].ev = "send" /\ log[j].ok}} IN
       /\ found = <<>> => fails = {}
       /\ cache' = SvcMarkMatchAsNotified(f2.cache, Ids(found))
       /\ last_update' = f2.last_update
       /\ everOk' = (everOk \/ f2.last_update # last_update)
       /\ reported' = reported \cup sent
       /\ ret' = [op |-> "notify_users_about_new_matches", found |-> Ids(found),
                  recipients |-> {users[u].telegram_id : u \in SubscribedUsers},
                  log |-> log, sent |-> sent, again |-> sent \cap reported]
    /\ UNCHANGED <<now, dbVars, pc, callNow, paidLog, notifiedDone, revoked, txVars, joining, uiVars>>

\* ------------------------------------------------------- admin dialogue
\* ADMIN_IDS, read from ADMIN_ID_1..5: one of the two accounts is an admin
AdminIds == {1}

IsAdminAnyone(user_id) == TRUE

\* is_admin(user_id)
IsAdmin(user_id) == user_id \in AdminIds

\* context.user_data of an account: the two flags, and the username typed for
\* a grant ("" when the key is absent)
NoUserData == [admin_give_sub |-> FALSE, admin_revoke_sub |-> FALSE,
               sub_username |-> ""]

\* the text messages in play
Texts == {"@bob", "AMY", "zed"}

\* update.message.text.strip().replace("@", "")
Username(text) == IF text = "@bob" THEN "bob" ELSE text

Handled(kind, tg, data, handler) ==
    [kind |-> kind, from |-> tg, data |-> data, handler |-> handler,
     picked |-> picked[tg]]

\* /start
Start(tg, username) ==
    /\ Step
    /\ DbGetOrCreateUser(tg, username)
    /\ update' = Handled("command", tg, "/start", "start")
    /\ UNCHANGED <<now, subs, links, matches, svcVars, histVars, txVars, joining,
                   user_data, picked, refused>>

\* button admin_panel, also the Cancel and Back button of the admin screens
AdminPanel(tg) ==
    /\ Step
    /\ refused' = IF IsAdmin(tg) THEN refused ELSE refused \cup {tg}
    /\ update' = Handled("callback", tg, "admin_panel", "admin_panel")
    /\ ret' = [op |-> "admin_panel", allowed |-> IsAdmin(tg)]
    /\ UNCHANGED <<now, dbVars, svcVars, histVars, txVars, joining, user_data, picked>>

\* button admin_give_sub
AdminGiveSubscription(tg) ==
    /\ Step
    /\ IF ~IsAdmin(tg)
       THEN /\ refused' = refused \cup {tg}
            /\ UNCHANGED <<user_data, picked>>
       ELSE /\ user_data' = [user_data EXCEPT ![tg].admin_give_sub = TRUE]
            /\ picked' = [picked EXCEPT ![tg] = "give"]
            /\ UNCHANGED refused
    /\ update' = Handled("callback", tg, "admin_give_sub", "admin_give_subscription")
    /\ ret' = [op |-> "admin_give_subscription", allowed |-> IsAdmin(tg)]
    /\ UNCHANGED <<now, dbVars, svcVars, histVars, txVars, joining>>

\* button admin_revoke_sub
AdminRevokeSubscription(tg) ==
    /\ Step
    /\ IF ~IsAdmin(tg)
       THEN /\ refused' = refused \cup {tg}
            /\ UNCHANGED <<user_data, picked>>
       ELSE /\ user_data' = [user_data EXCEPT ![tg].admin_revoke_sub = TRUE]
            /\ picked' = [picked EXCEPT ![tg] = "revoke"]
            /\ UNCHANGED refused
    /\ update' = Handled("callback", tg, "admin_revoke_sub", "admin_revoke_subscription")
    /\ ret' = [op |-> "admin_revoke_subscription", allowed |-> IsAdmin(tg)]
    /\ UNCHANGED <<now, dbVars, svcVars, histVars, txVars, joining>>

\* buttons admin_give_week, admin_give_two_weeks, admin_give_month: the
\* handler tests no is_admin, only that a username has been typed
AdminProcessGiveSubscription(tg, stype) ==
    /\ Step
    /\ LET username == user_data[tg].sub_username IN
       IF username = ""
       THEN /\ refused' = refused \cup {tg}
            /\ ret' = [op |-> "admin_process_give_subscription", allowed |-> FALSE]
            /\ UNCHANGED <<subs, user_data>>
       ELSE /\ DbAdminCreateSubscription(username, stype)
            \* lines 502-508 return, and an exception leaves, before the del
            /\ user_data' = IF ret'.outcome = "returned" /\ ret'.res # None
                            THEN [user_data EXCEPT ![tg].sub_username = ""]
                            ELSE user_data
            /\ UNCHANGED refused
    /\ update' = Handled("callback", tg, stype, "admin_process_give_subscription")
    /\ UNCHANGED <<now, users, links, matches, svcVars, histVars, txVars, joining,
                   picked>>

\* a text message: handle_message and the handler it hands the update to
HandleMessage(tg, account_name, text) ==
    /\ Step
    /\ IF user_data[tg].admin_give_sub
       THEN /\ user_data' = [user_data EXCEPT ![tg].sub_username = Username(text),
                                              ![tg].admin_give_sub = FALSE]
            /\ ret' = [op |-> "handle_admin_give_sub_username",
                       name |-> Username(text)]
            /\ update' = Handled("message", tg, text, "handle_admin_give_sub_username")
            /\ UNCHANGED <<users, subs, revoked>>
       ELSE IF user_data[tg].admin_revoke_sub
       THEN /\ DbRevokeSubscription(Username(text))
            \* line 567 returns before the flag is popped
            /\ user_data' = IF ret'.res # None
                            THEN [user_data EXCEPT ![tg].admin_revoke_sub = FALSE]
                            ELSE user_data
            /\ update' = Handled("message", tg, text, "handle_admin_revoke_sub_username")
            /\ UNCHANGED users
       ELSE /\ DbGetOrCreateUser(tg, account_name)
            /\ update' = Handled("message", tg, text, "start")
            /\ UNCHANGED <<subs, revoked, user_data>>
    /\ picked' = [picked EXCEPT ![tg] = "none"]
    /\ UNCHANGED <<now, links, matches, svcVars, paidLog, everOk, notifiedDone,
                   reported, txVars, joining, refused>>

\* ------------------------------------------------------ persisted matches
\* Odds of persisted matches are kept in ten-thousandths.
\* func.round(x, 2) and func.round(x, 3): to the nearest hundredth or
\* thousandth, a half rounding up.
Round2(x) == ((x + 50) \div 100) * 100
Round3(x) == ((x + 5) \div 10) * 10

AddMatch(odds_1, odds_2, match_time) ==
    /\ Step
    /\ matches' = Append(matches, [odds_1 |-> odds_1, odds_2 |-> odds_2,
                                   match_time |-> match_time, sent |-> FALSE])
    /\ ret' = [op |-> "add_match", id |-> Len(matches) + 1]
    /\ UNCHANGED <<now, users, subs, links, svcVars, histVars, txVars, joining, uiVars>>

TargetRuleFirstOnly(m) ==
    /\ Round2(m.odds_1) = 42500
    /\ Round3(m.odds_2) = 12250
    /\ m.sent = FALSE
    /\ m.match_time >= now

\* the WHERE clause of get_matches_with_target_odds
TargetRule(m) ==
    \/ /\ Round2(m.odds_1) = 42500
       /\ Round3(m.odds_2) = 12250
       /\ m.sent = FALSE
       /\ m.match_time >= now
    \/ /\ Round2(m.odds_1) = 42200
       /\ Round3(m.odds_2) = 12250
       /\ m.sent = FALSE
       /\ m.match_time >= now

TargetMatches == {i \in DOMAIN matches : TargetRule(matches[i])}

GetMatchesWithTargetOdds ==
    /\ Step
    /\ ret' = [op |-> "get_matches_with_target_odds", ids |-> TargetMatches]
    /\ UNCHANGED <<now, dbVars, svcVars, histVars, txVars, joining, uiVars>>

FlagNotStored(table, match_id) == table

FlagToggle(table, match_id) == [table EXCEPT ![match_id].sent = ~@]

\* match.notification_sent = True; await session.commit()
FlagStore(table, match_id) == [table EXCEPT ![match_id].sent = TRUE]

DbMarkMatchAsNotified(match_id) ==
    /\ Step
    /\ IF match_id \in DOMAIN matches
       THEN /\ matches' = FlagStore(matches, match_id)
            /\ notifiedDone' = notifiedDone \cup {match_id}
       ELSE UNCHANGED <<matches, notifiedDone>>
    /\ ret' = [op |-> "db_mark_match_as_notified", id |-> match_id,
               found |-> (match_id \in DOMAIN matches),
               was_sent |-> (match_id \in DOMAIN matches /\ matches[match_id].sent)]
    /\ UNCHANGED <<now, users, subs, links, svcVars, paidLog, everOk, reported, revoked, txVars, joining, uiVars>>

\* ------------------------------------------------------------ specification
Init ==
    /\ now = 0
    /\ steps = 0
    /\ users = <<>>
    /\ subs = <<>>
    /\ links = <<>>
    /\ matches = <<>>
    /\ cache = EmptyList
    /\ last_update = NoUpdate
    /\ pc = [c \in Callers |-> "idle"]
    /\ callNow = [c \in Callers |-> 0]
    /\ paidLog = [t \in Tokens |-> <<>>]
    /\ everOk = FALSE
    /\ notifiedDone = {}
    /\ reported = {}
    /\ revoked = {}
    /\ settling = [k \in SettleTasks |-> SettleIdle]
    /\ granting = [k \in GrantTasks |-> GrantIdle]
    /\ joining = [k \in JoinTasks |-> JoinIdle]
    /\ user_data = [tg \in TelegramIds |-> NoUserData]
    /\ picked = [tg \in TelegramIds |-> "none"]
    /\ refused = {}
    /\ update = [kind |-> "none", from |-> None, data |-> "", handler |-> "",
                 picked |-> "none"]
    /\ ret = [op |-> "init"]

LedgerNext ==
    \/ \E d \in TickSteps : Tick(d)
    \/ \E a \in Accounts : GetOrCreateUser(a[1], a[2])
    \/ \E u \in DOMAIN users, o \in Offers, p \in PaymentIds :
          CreateSubscription(u, o[1], o[2], p)
    \/ \E n \in AdminInputs, s \in SubTypes : AdminCreateSubscription(n, s)
    \/ \E n \in AdminInputs : RevokeSubscription(n)

SpecLedger == Init /\ [][LedgerNext]_vars

PayNext ==
    \/ \E tg \in TelegramIds, o \in Offers, t \in Tokens :
          CreatePaymentLink(tg, o[1], o[2], t)
    \/ \E t \in Tokens : MarkPaymentAsPaid(t)

SpecPay == Init /\ [][PayNext]_vars

CacheNext ==
    \/ \E d \in TickSteps : Tick(d)
    \/ \E c \in Callers : FetchBegin(c)
    \/ \E c \in Callers, r \in Responses : FetchEnd(c, r)

SpecCache == Init /\ [][CacheNext]_vars

\* the matches that get persisted: <<odds_1, odds_2, match_time>>
MatchInputs == {<<42500, 12250, 50 * Day>>, <<42249, 12254, 2 * Day>>,
                <<42160, 12300, 50 * Day>>}

MatchDbNext ==
    \/ \E d \in TickSteps : Tick(d)
    \/ \E m \in MatchInputs : AddMatch(m[1], m[2], m[3])
    \/ \E id \in 1..(Len(matches) + 1) : DbMarkMatchAsNotified(id)
    \/ GetMatchesWithTargetOdds

SpecMatchDb == Init /\ [][MatchDbNext]_vars

SearchNext ==
    \/ \E d \in TickSteps : Tick(d)
    \/ \E a \in Accounts : GetOrCreateUser(a[1], a[2])
    \/ \E u \in DOMAIN users, o \in Offers, p \in PaymentIds :
          CreateSubscription(u, o[1], o[2], p)
    \/ \E tg \in TelegramIds, r \in Responses : FindMatches(tg, r)

SpecSearch == Init /\ [][SearchNext]_vars

\* what the upstream requests of a sweep end in: a failure, an empty list, one
\* fixture, or two fixtures
SweepResponses ==
    {r \in Responses :
        /\ r.kind \in {"ok", "exception"}
        /\ r.data \in {EmptyList, JsonList(<<FxGood>>), JsonList(<<FxSoon, FxGood>>)}}

NotifyNext ==
    \/ \E d \in TickSteps : Tick(d)
    \/ \E a \in Accounts : GetOrCreateUser(a[1], a[2])
    \/ \E u \in DOMAIN users, o \in Offers : CreateSubscription(u, o[1], o[2], "pay_a")
    \/ \E n \in AdminInputs : RevokeSubscription(n)
    \/ \E r1, r2 \in SweepResponses, f \in SUBSET TelegramIds :
          NotifyUsers(r1, r2, f)

SpecNotify == Init /\ [][NotifyNext]_vars

PayRaceNext ==
    \/ \E tg \in TelegramIds, o \in Offers, t \in Tokens :
          CreatePaymentLink(tg, o[1], o[2], t)
    \/ \E k \in SettleTasks, t \in Tokens : SettleRead(k, t)
    \/ \E k \in SettleTasks : SettleCommit(k)

SpecPayRace == Init /\ [][PayRaceNext]_vars

LedgerRaceNext ==
    \/ \E a \in Accounts : GetOrCreateUser(a[1], a[2])
    \/ \E u \in DOMAIN users, o \in Offers, p \in PaymentIds :
          PurchaseRead(u, o[1], o[2], p)
    \/ \E n \in AdminInputs, s \in SubTypes : GrantRead(n, s)
    \/ \E k \in GrantTasks : GrantCommit(k)

SpecLedgerRace == Init /\ [][LedgerRaceNext]_vars

\* what the upstream request of the matcher ends in: the responses above, and
\* payloads that mix well-formed entries with entries of every malformed kind
JoinRaceNext ==
    \/ \E k \in JoinTasks, a \in Accounts : JoinRead(k, a[1], a[2])
    \/ \E k \in JoinTasks : JoinCommit(k)
    \/ \E u \in DOMAIN users : DecrementTrialMessage(u)

SpecJoinRace == Init /\ [][JoinRaceNext]_vars

\* the admin keyboard offers the three plans of AdminKnownTypes
DialogueNext ==
    \/ \E a \in Accounts : Start(a[1], a[2])
    \/ \E tg \in TelegramIds : AdminPanel(tg)
    \/ \E tg \in TelegramIds : AdminGiveSubscription(tg)
    \/ \E tg \in TelegramIds : AdminRevokeSubscription(tg)
    \/ \E tg \in TelegramIds, s \in AdminKnownTypes :
          AdminProcessGiveSubscription(tg, s)
    \/ \E a \in Accounts, t \in Texts : HandleMessage(a[1], a[2], t)

SpecDialogue == Init /\ [][DialogueNext]_vars

MatcherResponses ==
    Responses \cup
    {[kind |-> "ok", data |-> d] :
        d \in {JsonList(<<FxNoTime, FxBadTime, FxNoBook, FxGood>>),
               JsonList(<<FxNoH2h, FxGood, FxShort, FxBadPrice, FxSoon>>)}}

MatcherNext ==
    \/ \E d \in TickSteps : Tick(d)
    \/ \E r \in MatcherResponses, o \in OddsRanges :
          CheckForMatchesWithTargetOdds(r, o[1], o[2])

SpecMatcher == Init /\ [][MatcherNext]_vars

\* ------------------------------------------------------------------ claims

\* C1: after each paid create_subscription call made while the user has an
\* active subscription, the stored row read back by get_active_subscription
\* has end = max(now, previous end) + duration(plan), and the stored end has
\* not decreased.
C1_RenewalEndStored ==
    (ret.op = "create_subscription" /\ ret.had_active) =>
        /\ \E r \in ActiveRows(ret.uid) :
              subs[r].end = Max(ret.at, ret.prev_end) + PaidDuration(ret.stype)
        /\ subs[ret.row].end >= ret.prev_end

\* C2: per token, once a mark_payment_as_paid call has returned the link every
\* later call returns None (so at most one call per token returns a link),
\* and a call on an unsettled link returns the link.
C2_SettleOnce ==
    /\ \A t \in Tokens : \A i, j \in DOMAIN paidLog[t] :
          (i < j /\ paidLog[t][i] = "link") => paidLog[t][j] = "none"
    /\ (ret.op = "mark_payment_as_paid" /\ ret.was_unsettled) => ret.res # None
    /\ (ret.op = "mark_payment_as_paid" /\ ~ret.was_unsettled) => ret.res = None

C2_Witness ==
    \E t \in Tokens : Len(paidLog[t]) >= 2 /\ paidLog[t][1] = "link"
                      /\ paidLog[t][2] = "none"

\* C3: right after a revoke_subscription that succeeded on a subscription whose
\* end was in the future, get_active_subscription and has_active_subscription
\* report no active subscription for that user.
C3_RevokeImmediate ==
    (ret.op = "revoke_subscription" /\ ret.res # None /\ ret.prev_end > now) =>
        /\ GetActiveSubscription(ret.uid) = {None}
        /\ ~HasActiveSubscription(ret.uid)

C3_Witness ==
    /\ ret.op = "revoke_subscription" /\ ret.res # None /\ ret.prev_end > now
    /\ subs[ret.row].end < now

\* C4: every user has at most one subscription row with end >= now, and a
\* purchase or grant made while an unexpired row exists extends that row and
\* inserts no second one.
C4_SingleActiveRowExtended ==
    /\ \A u \in DOMAIN users : Cardinality(ActiveRows(u)) <= 1
    /\ (ret.op \in {"create_subscription", "admin_create_subscription"}
          /\ ret.had_active) =>
            /\ Len(subs) = ret.rows_before
            /\ subs[ret.row].end > ret.prev_end

\* C11: a user buys "week" at day 0 and renews with "two_weeks" at day 3
\* through create_subscription; the subscription then ends at day 3 + 14 = 17.
C11_RenewAtDay3 ==
    (/\ ret.op = "create_subscription" /\ ret.had_active
     /\ ret.stype = "two_weeks" /\ ret.at = 3 * Day
     /\ subs[ret.row].start = 0 /\ ret.prev_end = 7 * Day) =>
        /\ subs[ret.row].end = 17 * Day
        /\ ret.mem_end = 17 * Day

\* C12: after a paid create_subscription call made while the user has an
\* active subscription, the plan kind of that subscription is the plan kind
\* just bought.
C12_RenewalPlanKind ==
    (ret.op = "create_subscription" /\ ret.had_active) =>
        /\ subs[ret.row].stype = ret.stype
        /\ ret.mem_stype = ret.stype

C14_UnknownPlanNoMutation ==
    (/\ ret.op \in {"create_subscription", "admin_create_subscription"}
     /\ ret.stype \notin {"week", "two_weeks", "month"}) =>
        /\ Len(subs) = ret.rows_before
        /\ ret.outcome # "returned" \/ (ret.op = "admin_create_subscription"
                                         /\ ret.res = None)

\* C15: the pairs <<name given to an admin command, stored username>> that are
\* equal case-insensitively
SameIgnoringCase == {<<"bob", "Bob">>, <<"AMY", "amy">>}

\* C15: admin_create_subscription and revoke_subscription with a username that
\* equals no stored username case-insensitively return None and change no user
\* or subscription row; with a username that equals a stored one up to letter
\* case they act on that user.
C15_UsernameLookup ==
    [][ret'.op \in {"admin_create_subscription", "revoke_subscription"} =>
          LET hits == {i \in DOMAIN users :
                          <<ret'.name, users[i].username>> \in SameIgnoringCase} IN
          /\ hits = {} => (ret'.res = None /\ ret'.uid = None
                           /\ users' = users /\ subs' = subs)
          /\ hits # {} =>
                \/ /\ ret'.op = "admin_create_subscription"
                   /\ ret'.stype \notin {"week", "two_weeks", "month"}
                \/ ret'.uid \in hits]_vars

C15_Witness ==
    /\ ret.op = "revoke_subscription" /\ ret.name = "zed"
    /\ ret.res = None /\ ret.uid = None
    /\ \E r \in DOMAIN subs :
          /\ subs[r].payment_id = "admin"
          /\ users[subs[r].user_id].username = "Bob"

\* C17: per token, at most one mark_payment_as_paid call returns the link, also
\* when two calls for the token overlap between reading the link and
\* committing.
C17_OverlapSettlesOnce ==
    \A t \in Tokens :
        Cardinality({i \in DOMAIN paidLog[t] : paidLog[t][i] = "link"}) <= 1

\* C18: when a purchase and an admin grant for a user without a subscription
\* overlap and both have completed, the user has a single active row, and its
\* end instant and cumulative amount reflect both operations.
C18_NoLostUpdate ==
    LET p == granting["purchase"]
        g == granting["grant"] IN
    (/\ p.at = "done" /\ g.at = "done" /\ p.uid = g.uid
     /\ p.overlap \/ g.overlap
     /\ p.existing = None /\ g.existing = None) =>
        \E r \in DOMAIN subs :
            /\ ActiveRows(p.uid) = {r}
            /\ subs[r].price = p.amount + g.amount
            /\ subs[r].end = now + p.duration + g.duration

\* C21: an entry whose kickoff is an ISO-8601 instant (with or without a UTC
\* offset) not before t, whose first bookmaker has an h2h market with two
\* outcomes, and whose first or second price lies in [lo, hi]
C21_Qualifies(e, t, lo, hi) ==
    /\ e.commence \in {"naive", "aware"}
    /\ e.kick >= t
    /\ e.market = "h2h"
    /\ \/ (lo <= e.p1 /\ e.p1 <= hi)
       \/ (lo <= e.p2 /\ e.p2 <= hi)

\* C21: check_for_matches_with_target_odds(min_odds, max_odds) returns an
\* entry of the snapshot if and only if its kickoff is not before now, it has
\* a two-outcome h2h market, and one of the two prices is in
\* [min_odds, max_odds].
C21_MatcherIff ==
    ret.op = "check_for_matches_with_target_odds" =>
        \A i \in DOMAIN ret.snapshot.items :
            LET e == ret.snapshot.items[i] IN
            (\E j \in DOMAIN ret.result : ret.result[j] = e)
                <=> C21_Qualifies(e, ret.at, ret.lo, ret.hi)

\* C22: the prices, in ten-thousandths, for which odds_1 rounded to two
\* decimals is 4.25 or 4.22 and odds_2 rounded to three decimals is 1.225
C22_TargetPrices(m) ==
    /\ \/ (42450 <= m.odds_1 /\ m.odds_1 < 42550)
       \/ (42150 <= m.odds_1 /\ m.odds_1 < 42250)
    /\ 12245 <= m.odds_2 /\ m.odds_2 < 12255

\* C22: get_matches_with_target_odds returns a persisted match if and only if
\* its kickoff is >= now, its notification_sent flag is false, and its prices
\* satisfy one of the two target rules.
C22_TargetIff ==
    ret.op = "get_matches_with_target_odds" =>
        \A i \in DOMAIN matches :
            i \in ret.ids <=> /\ matches[i].match_time >= now
                              /\ ~matches[i].sent
                              /\ C22_TargetPrices(matches[i])

C22_Witness ==
    /\ ret.op = "get_matches_with_target_odds"
    /\ \E i \in ret.ids : matches[i].odds_1 = 42249
    /\ \E i \in DOMAIN matches :
          i \notin ret.ids /\ ~matches[i].sent /\ matches[i].match_time >= now

\* C23: a fetch_matches call made while the age of the cached snapshot is
\* below the TTL of 10 minutes returns the cache unchanged without an upstream
\* request, and a call made at any other time goes upstream; when that fetch
\* succeeds, its payload replaces the cache and is returned, and last_update
\* becomes the instant of the call.
C23_TtlThenRefresh ==
    /\ (ret.op = "fetch_matches" /\ ~ret.asked) =>
          /\ ret.lu_before # NoUpdate /\ ret.at - ret.lu_before < 10
          /\ ret.result = ret.cache_before /\ cache = ret.cache_before
          /\ last_update = ret.lu_before
    /\ ret.op = "fetch_matches_await" =>
          (ret.lu_before = NoUpdate \/ ret.at - ret.lu_before >= 10)
    /\ (ret.op = "fetch_matches" /\ ret.asked /\ ~ret.failed) =>
          /\ cache = ret.upstream
          /\ ret.result = ret.upstream
          /\ last_update = ret.at

\* C24: every subscription row has end >= start, revoked rows included.
C24_EndNotBeforeStart ==
    \A r \in DOMAIN subs : subs[r].end >= subs[r].start

\* C25: a create_subscription or admin_create_subscription call for a user
\* without an active subscription inserts one row with start = now and
\* end = now + duration and reports is_renewal = false; duration is 7 days
\* for week, 14 days for two_weeks, and for month 31 days when paid and 30
\* days when granted by an admin.
C25_FreshRow ==
    (/\ ret.op \in {"create_subscription", "admin_create_subscription"}
     /\ ret.uid # None /\ ~ret.had_active
     /\ ret.stype \in {"week", "two_weeks", "month"}) =>
        LET days == CASE ret.stype = "week" -> 7
                      [] ret.stype = "two_weeks" -> 14
                      [] ret.op = "create_subscription" -> 31
                      [] OTHER -> 30 IN
        /\ Len(subs) = ret.rows_before + 1 /\ ret.row = Len(subs)
        /\ subs[ret.row].user_id = ret.uid
        /\ subs[ret.row].stype = ret.stype
        /\ subs[ret.row].start = ret.at
        /\ subs[ret.row].end = ret.at + days * 24 * 60
        /\ ret.outcome = "returned" /\ ~ret.is_renewal

C25_Witness ==
    /\ ret.op = "create_subscription" /\ ~ret.had_active /\ ret.stype = "month"
    /\ subs[ret.row].end - subs[ret.row].start = 31 * 24 * 60
    /\ \E r \in DOMAIN subs :
          /\ subs[r].payment_id = "admin" /\ subs[r].stype = "month"
          /\ subs[r].end - subs[r].start = 30 * 24 * 60

\* C26: after a create_subscription or admin_create_subscription call made
\* while the user has an active subscription, the stored cumulative amount is
\* the previous amount plus the amount of this purchase, the stored payment
\* reference is that of this purchase, and the call reports is_renewal = true.
C26_RenewalAmount ==
    (/\ ret.op \in {"create_subscription", "admin_create_subscription"}
     /\ ret.had_active) =>
        /\ subs[ret.row].price = ret.prev_price + ret.amount
        /\ subs[ret.row].payment_id = ret.payment
        /\ ret.outcome = "returned" /\ ret.is_renewal

\* C27: no step of the ledger removes a subscription row or changes which
\* user a row belongs to, and a revoke_subscription step changes nothing but
\* the end instant of the one row it revokes: the start, plan kind, amount and
\* payment reference of that row, every other row, and every user row with
\* its trial quota stay as they were.
C27_RevokeFrame ==
    [][/\ Len(subs') >= Len(subs)
       /\ \A r \in DOMAIN subs :
             /\ subs'[r].user_id = subs[r].user_id
             /\ subs'[r].start = subs[r].start
       /\ ret'.op = "revoke_subscription" =>
             /\ users' = users
             /\ Len(subs') = Len(subs)
             /\ \A r \in DOMAIN subs :
                   [subs'[r] EXCEPT !.end = subs[r].end] = subs[r]
             /\ \A r \in DOMAIN subs :
                   subs'[r] # subs[r] =>
                       /\ ret'.res # None /\ r = ret'.row
                       /\ subs[r].user_id = ret'.uid /\ subs[r].end >= now]_vars

C27_Witness ==
    /\ ret.op = "revoke_subscription" /\ ret.res # None
    /\ subs[ret.row].end # ret.prev_end
    /\ subs[ret.row].price > 0
    /\ \E r \in DOMAIN subs : subs[r].user_id # ret.uid /\ subs[r].end >= now

\* C28: revoke_subscription for a username that resolves to a user returns
\* that user's Telegram id exactly when the user has a subscription row with
\* end >= now at the time of the call, and then the end of that row becomes
\* now - 1 minute; otherwise it returns None and changes no row.
C28_RevokeResult ==
    [][(ret'.op = "revoke_subscription" /\ ret'.uid # None) =>
          LET active == {r \in DOMAIN subs :
                            subs[r].user_id = ret'.uid /\ subs[r].end >= now} IN
          /\ ret'.res # None <=> active # {}
          /\ active # {} =>
                /\ ret'.res = users[ret'.uid].telegram_id
                /\ ret'.row \in active
                /\ subs'[ret'.row].end = now - 1
          /\ active = {} => (subs' = subs /\ users' = users)]_vars

C28_Witness ==
    /\ ret.op = "revoke_subscription" /\ ret.uid # None /\ ret.res = None
    /\ \E v \in revoked : v.uid = ret.uid /\ v.prev_end > now
                          /\ subs[v.row].end = v.at - 1

\* C29: a payment link is created with paid = false; a link that is paid is
\* paid in every later state; and the only step that sets the flag is a
\* mark_payment_as_paid call that returns that link.
C29_PaidOneWay ==
    [][/\ \A i \in DOMAIN links :
             /\ i \in DOMAIN links'
             /\ links[i].paid => links'[i].paid
             /\ (~links[i].paid /\ links'[i].paid) =>
                   (ret'.op = "mark_payment_as_paid" /\ ret'.res = i)
       /\ \A i \in DOMAIN links' \ DOMAIN links :
             ~links'[i].paid /\ ret'.op = "create_payment_link"]_vars

C29_Witness ==
    /\ ret.op = "create_payment_link" /\ ret.outcome = "returned"
    /\ ~links[Len(links)].paid
    /\ \E i \in DOMAIN links : links[i].paid
    /\ \E t \in Tokens : Len(paidLog[t]) >= 2

\* C30: the notification_sent flag of a persisted match never goes from true
\* to false; DatabaseService.mark_match_as_notified(id) leaves the match with
\* the flag true, changes no other match, changes nothing when the match was
\* already notified or when no match has that id; and no other step changes
\* a flag.
C30_NotifiedOneWay ==
    [][/\ \A i \in DOMAIN matches :
             /\ i \in DOMAIN matches'
             /\ matches[i].sent => matches'[i].sent
             /\ matches'[i] # matches[i] =>
                   /\ ret'.op = "db_mark_match_as_notified" /\ ret'.id = i
                   /\ matches'[i] = [matches[i] EXCEPT !.sent = TRUE]
       /\ ret'.op = "db_mark_match_as_notified" =>
             /\ ret'.id \in DOMAIN matches => matches'[ret'.id].sent
             /\ ret'.id \notin DOMAIN matches => matches' = matches
             /\ Len(matches') = Len(matches)]_vars

C30_Witness ==
    /\ ret.op = "db_mark_match_as_notified"
    /\ ret.was_sent /\ matches[ret.id].sent
    /\ \E i \in DOMAIN matches : ~matches[i].sent

\* C31: an entry without commence_time, with a kickoff or a price that cannot
\* be parsed, without bookmakers, without an h2h market or with fewer than
\* two outcomes
C31_Malformed(e) ==
    \/ e.commence \in {"missing", "bad", "not_a_dict"}
    \/ e.market \in {"no_bookmakers", "no_markets", "no_h2h", "short"}
    \/ e.p1 = BadPrice \/ e.p2 = BadPrice

\* C31: check_for_matches_with_target_odds returns a list whatever entries
\* the snapshot holds; a malformed entry is never in it, and every entry is
\* in it exactly when a snapshot holding that entry alone would return it,
\* so a malformed entry does not change the inclusion of another entry.
C31_MalformedSkipped ==
    ret.op = "check_for_matches_with_target_odds" =>
        /\ \A j \in DOMAIN ret.result : ~C31_Malformed(ret.result[j])
        /\ ret.result =
              SelectSeq(ret.snapshot.items,
                        LAMBDA e : CheckForMatches(JsonList(<<e>>), ret.at,
                                                   ret.lo, ret.hi) = <<e>>)

C31_Witness ==
    /\ ret.op = "check_for_matches_with_target_odds"
    /\ \E i, j, k \in DOMAIN ret.snapshot.items :
          /\ i < j /\ j < k
          /\ C31_Malformed(ret.snapshot.items[i])
          /\ C31_Malformed(ret.snapshot.items[k])
          /\ ~C31_Malformed(ret.snapshot.items[j])
          /\ \E r \in DOMAIN ret.result : ret.result[r] = ret.snapshot.items[j]
    /\ Len(ret.result) = 2

\* C32: MatchService.fetch_matches returns a list for every upstream outcome:
\* when the request fails (no API key, timeout or connection error, a status
\* other than 200) or the payload is malformed (a body that is not the list
\* of fixtures), the value returned is the cache as it was, a list.
C32_ReturnsList ==
    ret.op = "fetch_matches" =>
        /\ ret.result.type = "list"
        /\ (ret.asked /\ (ret.failed \/ ret.upstream.type # "list")) =>
              ret.result = ret.cache_before

\* C33: when the upstream request succeeds with an empty list, fetch_matches
\* leaves cache and last_update as they were and returns the cache it had;
\* the cache is then as stale as before the call, so that the next call,
\* made right after the return or later, goes upstream again.
C33_EmptyLikeFailure ==
    [][(ret'.op = "fetch_matches" /\ ret'.asked /\ ~ret'.failed
            /\ ret'.upstream = EmptyList) =>
          /\ cache' = cache
          /\ last_update' = last_update
          /\ ret'.result = cache
          /\ (ret.op = "fetch_matches_await" /\ ret.caller = ret'.caller) =>
                ~Fresh(last_update', now')]_vars

C33_Witness ==
    /\ ret.op = "fetch_matches" /\ ret.asked /\ ~ret.failed
    /\ ret.upstream = EmptyList
    /\ ret.result # EmptyList
    /\ last_update # NoUpdate
    /\ ~Fresh(last_update, now)

\* C34: one run of find_matches changes no trial quota unless it found a
\* match and the requester has quota left and no active subscription; it
\* then lowers the quota of the requester by at most 1, and it never changes
\* the record of another user.
C34_TrialFrame ==
    [][ret'.op = "find_matches" =>
          /\ Len(users') = Len(users)
          /\ \A i \in DOMAIN users :
                IF i = ret'.uid
                THEN /\ users'[i].trial \in {users[i].trial, users[i].trial - 1}
                     /\ users'[i].trial # users[i].trial =>
                           /\ ret'.found # {}
                           /\ users[i].trial > 0
                           /\ ~HasActiveSubscription(i)
                ELSE users'[i] = users[i]]_vars

\* C35: every message of a notification sweep goes to a user who has a
\* subscription whose end is not before the instant at which the sweep read
\* its recipients; a user with trial quota only, and a user whose
\* subscription was revoked before the sweep, get none.
C35_RecipientsSubscribed ==
    ret.op = "notify_users_about_new_matches" =>
        \A i \in DOMAIN ret.log :
            ret.log[i].ev = "send" =>
                \E u \in DOMAIN users :
                    /\ users[u].telegram_id = ret.log[i].to
                    /\ \E r \in DOMAIN subs :
                          subs[r].user_id = u /\ subs[r].end >= now

C35_Witness ==
    /\ ret.op = "notify_users_about_new_matches"
    /\ \E i \in DOMAIN ret.log : ret.log[i].ev = "send"
    /\ \E u \in DOMAIN users :
          /\ users[u].trial > 0
          /\ \A r \in DOMAIN subs : subs[r].user_id # u
          /\ \A i \in DOMAIN ret.log : ret.log[i].to # users[u].telegram_id

\* C36: whatever buttons are pressed and texts are sent, by admins and by
\* other accounts, db_service.admin_create_subscription and
\* db_service.revoke_subscription are called only while the update being
\* handled comes from an account of ADMIN_IDS.
C36_AdminOnly ==
    ret.op \in {"admin_create_subscription", "revoke_subscription"} =>
        update.from \in AdminIds

C36_Witness ==
    /\ ret.op = "admin_create_subscription"
    /\ ret.res # None
    /\ update.from \in AdminIds
    /\ update.handler = "admin_process_give_subscription"
    /\ \E tg \in refused : tg \notin AdminIds

\* C37: the first text message an admin sends after selecting "revoke
\* subscription" is handled as the username to revoke, and the first one
\* after selecting "give subscription" as the username to grant, whatever
\* admin buttons the admin pressed before the selection.
C37_NextTextFollowsSelection ==
    update.kind = "message" =>
        /\ update.picked = "revoke" =>
              update.handler = "handle_admin_revoke_sub_username"
        /\ update.picked = "give" =>
              update.handler = "handle_admin_give_sub_username"

\* C38: no two user rows hold the same telegram_id
C38_OnePerTelegramId ==
    \A tg \in TelegramIds : Cardinality(UsersByTelegramId(tg)) <= 1

\* C38: a get_or_create_user call that returns an existing user changes no
\* row; one that creates the user adds one row, whose trial quota is 3
C38_ReturnStep ==
    (ret'.op = "get_or_create_user" /\ ret'.outcome = "returned") =>
        IF ret'.created
        THEN /\ users' = Append(users, users'[ret'.uid])
             /\ users'[ret'.uid].telegram_id = ret'.tg
             /\ users'[ret'.uid].trial = 3
        ELSE /\ users' = users
             /\ users[ret'.uid].telegram_id = ret'.tg

C7_FailureServesCache ==
    (ret.op = "fetch_matches" /\ ret.asked /\ ret.failed) =>
        /\ ret.result = ret.cache_before
        /\ cache = ret.cache_before
        /\ last_update = ret.lu_before
        /\ ret.never_ok => ret.result = EmptyList

C7_Witness ==
    /\ ret.op = "fetch_matches" /\ ret.asked /\ ret.failed
    /\ ret.result # EmptyList
    /\ ~Fresh(last_update, now)

\* C8: when callers of fetch_matches overlap while the cache is stale, at most
\* one upstream request is outstanding at any time.
C8_SingleFlight == Cardinality({c \in Callers : pc[c] = "awaiting"}) <= 1

\* C9: once DatabaseService.mark_match_as_notified(id) has completed for an
\* existing match, that match is in no later result of
\* get_matches_with_target_odds.
C9_NotifiedExcluded ==
    /\ \A id \in notifiedDone : id \notin TargetMatches
    /\ ret.op = "get_matches_with_target_odds" => ret.ids \cap notifiedDone = {}

C9_Witness ==
    /\ ret.op = "get_matches_with_target_odds"
    /\ ret.ids # {}
    /\ \E id \in notifiedDone :
          TargetRule([matches[id] EXCEPT !.sent = FALSE])

\* C5: a find_matches run that finds a match for a user on trial (quota > 0,
\* no subscription) lowers that user's stored quota by one, so three such runs
\* take it from 3 to 2, 1, 0; and a run by a user with quota 0 and no
\* subscription is denied.
C5_TrialCountdown ==
    /\ (ret.op = "find_matches" /\ ~ret.denied /\ ret.found # {} /\ ret.on_trial) =>
          users[ret.uid].trial = ret.trial_before - 1
    /\ (ret.op = "find_matches" /\ ret.uid # None /\ users[ret.uid].trial = 0
          /\ ~HasActiveSubscription(ret.uid) /\ ret.trial_before = 0) => ret.denied

\* C16: the Telegram ids of users who have a subscription row with end >= now
\* or a trial quota > 0
Entitled(tg) ==
    \E i \in DOMAIN users :
        /\ users[i].telegram_id = tg
        /\ \/ users[i].trial > 0
           \/ \E r \in DOMAIN subs : subs[r].user_id = i /\ subs[r].end >= now

\* C16: is_user_subscribed is true exactly for a Telegram id that belongs to a
\* user who has a subscription row with end >= now or a trial quota > 0, and a
\* find_matches run by anyone else is denied and delivers no match.
C16_AccessGate ==
    /\ [](\A tg \in TelegramIds : IsUserSubscribed(tg) <=> Entitled(tg))
    /\ [][ret'.op = "find_matches" =>
            /\ ret'.denied <=> ~Entitled(ret'.tg)
            /\ ~Entitled(ret'.tg) => ret'.delivered = {}]_vars

C16_Witness ==
    /\ ret.op = "find_matches" /\ ret.denied
    /\ ret.uid # None
    /\ users[ret.uid].trial = 0 /\ ~HasActiveSubscription(ret.uid)

C19_MarkAfterFanOut ==
    ret.op = "notify_users_about_new_matches" =>
        \A i \in DOMAIN ret.log :
            ret.log[i].ev = "mark" =>
                \A tg \in ret.recipients :
                    \E j \in 1..(i - 1) :
                        /\ ret.log[j].ev = "send"
                        /\ ret.log[j].match = ret.log[i].match
                        /\ ret.log[j].to = tg

C19_Witness ==
    /\ ret.op = "notify_users_about_new_matches"
    /\ Cardinality(ret.recipients) = 2
    /\ \E i \in DOMAIN ret.log : ret.log[i].ev = "mark"

\* C20: in every run of notify_users_about_new_matches, each match of the run
\* is attempted exactly once for each recipient of the run, whichever
\* deliveries fail: a failure stops no later attempt and is not retried.
C20_FailureIsolated ==
    ret.op = "notify_users_about_new_matches" =>
        \A m \in ret.found : \A tg \in ret.recipients :
            Cardinality({i \in DOMAIN ret.log :
                            /\ ret.log[i].ev = "send"
                            /\ ret.log[i].match = m
                            /\ ret.log[i].to = tg}) = 1

C20_Witness ==
    /\ ret.op = "notify_users_about_new_matches"
    /\ \E i, j \in DOMAIN ret.log :
          /\ i < j
          /\ ret.log[i].ev = "send" /\ ~ret.log[i].ok
          /\ ret.log[j].ev = "send"
          /\ ret.log[j].match # ret.log[i].match

\* C10: a match that a sweep of notify_users_about_new_matches reported to
\* subscribers is not reported to subscribers again by a later sweep.
C10_ReportedOnce ==
    ret.op = "notify_users_about_new_matches" => ret.again = {}
====
